---- MODULE Spec2Model ----
(***************************************************************************)
(* A model of battleship.py: the three AI targeting strategies             *)
(* (RandomShooter, SeekAndDestroy, StrategicGenius), Ship, Grid, Player    *)
(* and Game.                                                               *)
(*                                                                         *)
(* A coordinate is the pair <<row, column>>.  One strategy instance is     *)
(* modelled per behaviour; Init picks its class and its grid_size.  Every  *)
(* call of choose_target / process_result is one action.  random.choice    *)
(* and random.shuffle are nondeterministic choices over all outcomes.      *)
(* Spec explores the three classes; SpecRandom, SpecSeek and SpecGenius    *)
(* one class each; SpecShip one Ship as placement creates it; SpecCalc     *)
(* one call of Player._calc_positions; SpecPlace and SpecSmall the two     *)
(* placements of a fleet (Player.random_placement, Player.__init__);       *)
(* SpecGame the loop of Game.play; SpecGeniusGame whole games against      *)
(* StrategicGenius on a 3 x 3 board; SpecCall the choose_target of the two *)
(* queue strategies, statement by statement.  Text typed by the user is a  *)
(* sequence of one-character strings.                                      *)
(***************************************************************************)
EXTENDS Integers, Sequences, FiniteSets, TLC

\* ------------------------------------------------------------------ bounds

\* The boards explored: 1 x 1, 2 x 2 and 3 x 3 (the smallest board with an
\* interior cell, whose four neighbours are all on the board).
GridSizes == {1, 2, 3}

\* The boards explored under every interleaving of calls; the others are
\* explored under the game loop's call protocol (see FreeCaller).
FreeGridSizes == {1, 2}

\* process_result(hit=True) is only taken while the queue stays within
\* MaxQueue entries (the code's list is unbounded).
MaxQueue == 4

\* choose_target is called at most grid_size^2 + MaxExtraCalls times, so
\* that calls on an exhausted board happen but the counter stays finite.
MaxExtraCalls == 2

\* Ships of length 1 .. MaxShip are explored.
MaxShip == 3

\* ------------------------------------------------------------------- state

VARIABLES
    kind,        \* the instance's class: "RandomShooter", "SeekAndDestroy", "StrategicGenius"
    grid_size,   \* AIStrategy.grid_size
    shots,       \* self.shots: the set of targeted coordinates
    targets,     \* self.targets: the candidate list (absent in RandomShooter: <<>>)
    hunt_mode,   \* StrategicGenius.hunt_mode (absent in the other classes: TRUE)
    last,        \* the latest call: its name, its arguments, what it returned, whether it raised
    returned,    \* history: every coordinate choose_target has returned so far
    calls,       \* history: the number of choose_target calls so far
    hit_reported,    \* history: process_result has been called with hit=True
    ship_size,       \* Ship.size
    ship_positions,  \* Ship.positions
    ship_hits,       \* Ship.hits
    ship_last,       \* the latest Ship call: its name, its target, what it returned
    calc_args,       \* the arguments of one _calc_positions call: start, size, orient
    calc_result,     \* what that call returned, once it has been made
    placement,       \* the placement under way: "random_placement" or "__init__"
    ship_sizes,      \* the ship_sizes argument of the placement
    ships,           \* self.ships of the Player under construction
    occupied,        \* the local set occupied of the placement
    place_last,      \* the latest placement attempt: its start, its orientation, its outcome
    computer_ships,  \* Game.computer.ships
    player_ships,    \* Game.player.ships
    computer_cells,  \* Game.computer.grid.cells
    player_cells,    \* Game.player.grid.cells
    phase,           \* the position of Game.play in its loop
    pc_tgt,          \* the local pc_tgt of Game.play
    hit_pc,          \* the local hit_pc of Game.play
    reports,         \* Game.reports
    frame,           \* the position of a choose_target call under way ("idle": none is)
    depth            \* the number of choose_target invocations on the call stack

stratVars ==
    <<kind, grid_size, shots, targets, hunt_mode, last, returned, calls, hit_reported,
      frame, depth>>
shipVars == <<ship_size, ship_positions, ship_hits, ship_last>>
calcVars == <<calc_args, calc_result>>
placeVars == <<placement, ship_sizes, ships, occupied, place_last>>
gameVars ==
    <<computer_ships, player_ships, computer_cells, player_cells, phase, pc_tgt, hit_pc,
      reports>>
vars == <<stratVars, shipVars, calcVars, placeVars, gameVars>>

Kinds == {"RandomShooter", "SeekAndDestroy", "StrategicGenius"}

\* ---------------------------------------------------------------- geometry

\* range(grid_size) x range(grid_size)
Board(n) == (0 .. (n - 1)) \X (0 .. (n - 1))

\* The coordinates a caller may pass to process_result / check_hit: the
\* board and one ring around it (a coordinate further out has no neighbour
\* on the board and behaves like a corner of the ring).
Coords(n) == (-1 .. n) \X (-1 .. n)

\* 0 <= nr < self.grid_size and 0 <= nc < self.grid_size
InBounds(n, p) == 0 <= p[1] /\ p[1] < n /\ 0 <= p[2] /\ p[2] < n

\* Mutant of Untargeted: an exhausted pool is refilled with the whole board.
Untargeted_refilled(n, s) ==
    IF {p \in Board(n) : p \notin s} = {} THEN Board(n) ELSE {p \in Board(n) : p \notin s}

\* Mutant of Untargeted: the "not in self.shots" filter is lost.
Untargeted_all(n, s) == Board(n)

\* [(r, c) for r in range(n) for c in range(n) if (r, c) not in self.shots]
Untargeted(n, s) == {p \in Board(n) : p \notin s}

\* The call records: the method, its arguments (coord, hit), the coordinate
\* it returned (ret) and whether it raised.  <<>> stands for "none".
NoCall ==
    [op |-> "__init__", coord |-> <<>>, hit |-> FALSE, ret |-> <<>>, raised |-> FALSE]
Returned(p) ==
    [op |-> "choose_target", coord |-> <<>>, hit |-> FALSE, ret |-> p, raised |-> FALSE]
\* random.choice([]) raises IndexError
Raised ==
    [op |-> "choose_target", coord |-> <<>>, hit |-> FALSE, ret |-> <<>>, raised |-> TRUE]
\* (the coordinate of a reported miss is not recorded: no strategy reads it)
Processed(c, h) ==
    [op |-> "process_result", coord |-> IF h THEN c ELSE <<>>, hit |-> h,
     ret |-> <<>>, raised |-> FALSE]

\* On the boards of FreeGridSizes the caller is arbitrary: any interleaving of
\* choose_target and process_result, with any coordinate.  On larger boards
\* the caller is Game.play (lines 551-554): each choose_target that returned
\* is followed by one process_result of the returned coordinate, and a
\* choose_target that raised ends the game.
FreeCaller == grid_size \in FreeGridSizes

MayChoose ==
    /\ calls < grid_size * grid_size + MaxExtraCalls
    /\ FreeCaller \/ last.op # "choose_target"

MayProcess(coord) ==
    FreeCaller \/ (last.op = "choose_target" /\ ~last.raised /\ coord = last.ret)

\* ----------------------------------------------------------- RandomShooter

\* Mutant of RandomShooter_choices: the "not in self.shots" filter is lost.
RandomShooter_choices_unfiltered(n, s) == Board(n)

\* choices, lines 123-124
RandomShooter_choices(n, s) == Untargeted(n, s)

RandomShooter_choose_target ==
    /\ kind = "RandomShooter"
    /\ MayChoose
    /\ calls' = calls + 1
    /\ LET choices == RandomShooter_choices(grid_size, shots) IN
        \/ /\ choices # {}
           /\ \E coord \in choices :
                /\ shots' = shots \cup {coord}
                /\ returned' = returned \cup {coord}
                /\ last' = Returned(coord)
        \/ /\ choices = {}
           /\ last' = Raised
           /\ UNCHANGED <<shots, returned>>
    /\ UNCHANGED <<kind, grid_size, targets, hunt_mode, hit_reported, shipVars, calcVars,
                 placeVars, gameVars, frame, depth>>

\* AIStrategy.process_result: pass
AIStrategy_process_result(coord, hit) ==
    /\ kind = "RandomShooter"
    /\ MayProcess(coord)
    /\ last' = Processed(coord, hit)
    /\ hit_reported' = (hit_reported \/ hit)
    /\ UNCHANGED <<kind, grid_size, shots, targets, hunt_mode, returned, calls, shipVars, calcVars,
                 placeVars, gameVars, frame, depth>>

\* ---------------------------------------------------------- SeekAndDestroy

\* Mutant of SeekAndDestroy_pop: pop(0) instead of pop().
SeekAndDestroy_pop_fifo(q, s) ==
    LET fresh == {i \in 1 .. Len(q) : q[i] \notin s} IN
        IF fresh = {}
        THEN [found |-> FALSE, coord |-> <<>>, rest |-> <<>>]
        ELSE LET m == CHOOSE i \in fresh : \A j \in fresh : i <= j
             IN [found |-> TRUE, coord |-> q[m], rest |-> SubSeq(q, m + 1, Len(q))]

\* Mutant of SeekAndDestroy_pop: the popped entry is returned without the
\* "not in self.shots" test.
SeekAndDestroy_pop_unchecked(q, s) ==
    IF q = <<>>
    THEN [found |-> FALSE, coord |-> <<>>, rest |-> <<>>]
    ELSE [found |-> TRUE, coord |-> q[Len(q)], rest |-> SubSeq(q, 1, Len(q) - 1)]

\* while self.targets: coord = self.targets.pop(); if coord not in self.shots: ...
\* The loop pops from the END of the list until an untargeted entry is found
\* (found, with the list as the loop leaves it) or the list is empty.
RECURSIVE SeekAndDestroy_pop(_, _)
SeekAndDestroy_pop(q, s) ==
    IF q = <<>>
    THEN [found |-> FALSE, coord |-> <<>>, rest |-> <<>>]
    ELSE LET coord == q[Len(q)]
             rest == SubSeq(q, 1, Len(q) - 1)
         IN IF coord \notin s
            THEN [found |-> TRUE, coord |-> coord, rest |-> rest]
            ELSE SeekAndDestroy_pop(rest, s)

SeekAndDestroy_choose_target ==
    /\ kind = "SeekAndDestroy"
    /\ MayChoose
    /\ calls' = calls + 1
    /\ LET p == SeekAndDestroy_pop(targets, shots) IN
        \/ /\ p.found
           /\ shots' = shots \cup {p.coord}
           /\ returned' = returned \cup {p.coord}
           /\ targets' = p.rest
           /\ last' = Returned(p.coord)
        \/ /\ ~p.found
           /\ targets' = p.rest
           /\ LET choices == Untargeted(grid_size, shots) IN
                \/ /\ choices # {}
                   /\ \E coord \in choices :
                        /\ shots' = shots \cup {coord}
                        /\ returned' = returned \cup {coord}
                        /\ last' = Returned(coord)
                \/ /\ choices = {}
                   /\ last' = Raised
                   /\ UNCHANGED <<shots, returned>>
    /\ UNCHANGED <<kind, grid_size, hunt_mode, hit_reported, shipVars, calcVars,
                 placeVars, gameVars, frame, depth>>

\* neighbors = [(r-1, c), (r+1, c), (r, c-1), (r, c+1)]
SeekAndDestroy_neighbors(coord) ==
    LET r == coord[1]
        c == coord[2]
    IN << <<r - 1, c>>, <<r + 1, c>>, <<r, c - 1>>, <<r, c + 1>> >>

\* Mutant of SeekAndDestroy_valid: "<=" for "<" in the bounds test.
SeekAndDestroy_valid_offbyone(n, coord) ==
    SelectSeq(SeekAndDestroy_neighbors(coord),
              LAMBDA p : 0 <= p[1] /\ p[1] <= n /\ 0 <= p[2] /\ p[2] <= n)

\* valid = [(nr, nc) for nr, nc in neighbors if 0 <= nr < grid_size and 0 <= nc < grid_size]
SeekAndDestroy_valid(n, coord) ==
    SelectSeq(SeekAndDestroy_neighbors(coord), LAMBDA p : InBounds(n, p))

\* random.shuffle(valid): every ordering of the list
Shuffles(seq) ==
    {[i \in 1 .. Len(seq) |-> seq[f[i]]] : f \in Permutations(1 .. Len(seq))}

SeekAndDestroy_process_result(coord, hit) ==
    /\ kind = "SeekAndDestroy"
    /\ MayProcess(coord)
    /\ \/ /\ hit
          /\ Len(targets) + Len(SeekAndDestroy_valid(grid_size, coord)) <= MaxQueue
          /\ \E valid \in Shuffles(SeekAndDestroy_valid(grid_size, coord)) :
                targets' = targets \o valid
       \/ /\ ~hit
          /\ UNCHANGED targets
    /\ last' = Processed(coord, hit)
    /\ hit_reported' = (hit_reported \/ hit)
    /\ UNCHANGED <<kind, grid_size, shots, hunt_mode, returned, calls, shipVars, calcVars,
                 placeVars, gameVars, frame, depth>>

\* --------------------------------------------------------- StrategicGenius

\* Mutant of StrategicGenius_choices: the checkerboard test is lost.
StrategicGenius_choices_noparity(n, s) == Untargeted(n, s)

\* [(r, c) ... if (r + c) % 2 == 0 and (r, c) not in self.shots], and
\* "if not choices": the whole untargeted pool
StrategicGenius_choices(n, s) ==
    LET checkerboard == {p \in Board(n) : (p[1] + p[2]) % 2 = 0 /\ p \notin s}
    IN IF checkerboard # {} THEN checkerboard ELSE Untargeted(n, s)

\* Mutant of StrategicGenius_pop: pop() instead of pop(0).
StrategicGenius_pop_lifo(q, s) == SeekAndDestroy_pop(q, s)

\* while self.targets: coord = self.targets.pop(0); if coord not in self.shots: ...
\* The loop pops from the FRONT of the list.
RECURSIVE StrategicGenius_pop(_, _)
StrategicGenius_pop(q, s) ==
    IF q = <<>>
    THEN [found |-> FALSE, coord |-> <<>>, rest |-> <<>>]
    ELSE LET coord == Head(q)
             rest == Tail(q)
         IN IF coord \notin s
            THEN [found |-> TRUE, coord |-> coord, rest |-> rest]
            ELSE StrategicGenius_pop(rest, s)

\* The hunting branch of choose_target (lines 207-217), also run by the
\* recursive call of line 227.
StrategicGenius_hunt ==
    LET choices == StrategicGenius_choices(grid_size, shots) IN
        \/ /\ choices # {}
           /\ \E coord \in choices :
                /\ shots' = shots \cup {coord}
                /\ returned' = returned \cup {coord}
                /\ last' = Returned(coord)
        \/ /\ choices = {}
           /\ last' = Raised
           /\ UNCHANGED <<shots, returned>>

StrategicGenius_choose_target ==
    /\ kind = "StrategicGenius"
    /\ MayChoose
    /\ calls' = calls + 1
    /\ \/ /\ hunt_mode
          /\ StrategicGenius_hunt
          /\ UNCHANGED <<hunt_mode, targets>>
       \/ /\ ~hunt_mode
          /\ LET p == StrategicGenius_pop(targets, shots) IN
              \/ /\ p.found
                 /\ shots' = shots \cup {p.coord}
                 /\ returned' = returned \cup {p.coord}
                 /\ targets' = p.rest
                 /\ last' = Returned(p.coord)
                 /\ UNCHANGED hunt_mode
              \/ /\ ~p.found
                 /\ targets' = p.rest
                 /\ hunt_mode' = TRUE
                 /\ StrategicGenius_hunt
    /\ UNCHANGED <<kind, grid_size, hit_reported, shipVars, calcVars,
                 placeVars, gameVars, frame, depth>>

\* Mutant of StrategicGenius_neighbors: the neighbours in SeekAndDestroy's order.
StrategicGenius_neighbors_reordered(coord) == SeekAndDestroy_neighbors(coord)

\* for nr, nc in [(r, c+1), (r, c-1), (r+1, c), (r-1, c)]
StrategicGenius_neighbors(coord) ==
    LET r == coord[1]
        c == coord[2]
    IN << <<r, c + 1>>, <<r, c - 1>>, <<r + 1, c>>, <<r - 1, c>> >>

\* The loop of lines 241-244 from its i-th iteration on: q is self.targets.
RECURSIVE StrategicGenius_enqueue(_, _, _, _, _)
StrategicGenius_enqueue(q, nbrs, i, n, s) ==
    IF i > Len(nbrs)
    THEN q
    ELSE IF InBounds(n, nbrs[i]) /\ nbrs[i] \notin s
         THEN StrategicGenius_enqueue(Append(q, nbrs[i]), nbrs, i + 1, n, s)
         ELSE StrategicGenius_enqueue(q, nbrs, i + 1, n, s)

\* Mutant of StrategicGenius_process_result: a reported miss returns the
\* strategy to hunting.
StrategicGenius_process_result_resets(coord, hit) ==
    /\ kind = "StrategicGenius"
    /\ MayProcess(coord)
    /\ \/ /\ hit
          /\ LET q == StrategicGenius_enqueue(targets, StrategicGenius_neighbors(coord),
                                              1, grid_size, shots)
             IN /\ Len(q) <= MaxQueue
                /\ targets' = q
          /\ hunt_mode' = FALSE
       \/ /\ ~hit
          /\ hunt_mode' = TRUE
          /\ UNCHANGED targets
    /\ last' = Processed(coord, hit)
    /\ hit_reported' = (hit_reported \/ hit)
    /\ UNCHANGED <<kind, grid_size, shots, returned, calls, shipVars, calcVars,
                 placeVars, gameVars, frame, depth>>

StrategicGenius_process_result(coord, hit) ==
    /\ kind = "StrategicGenius"
    /\ MayProcess(coord)
    /\ \/ /\ hit
          /\ LET q == StrategicGenius_enqueue(targets, StrategicGenius_neighbors(coord),
                                              1, grid_size, shots)
             IN /\ Len(q) <= MaxQueue
                /\ targets' = q
          /\ hunt_mode' = FALSE
       \/ /\ ~hit
          /\ UNCHANGED <<targets, hunt_mode>>
    /\ last' = Processed(coord, hit)
    /\ hit_reported' = (hit_reported \/ hit)
    /\ UNCHANGED <<kind, grid_size, shots, returned, calls, shipVars, calcVars,
                 placeVars, gameVars, frame, depth>>

\* ------------------------------------ choose_target, statement by statement

\* self.shots.add(coord); return coord: every invocation on the stack
\* returns the coordinate.
Return(coord) ==
    /\ shots' = shots \cup {coord}
    /\ returned' = returned \cup {coord}
    /\ last' = Returned(coord)
    /\ frame' = "idle"
    /\ depth' = 0

\* coord = random.choice(choices) and the return; on an empty list
\* random.choice raises IndexError, which unwinds the stack.
Choice(choices) ==
    \/ /\ choices # {}
       /\ \E coord \in choices : Return(coord)
    \/ /\ choices = {}
       /\ last' = Raised
       /\ frame' = "idle"
       /\ depth' = 0
       /\ UNCHANGED <<shots, returned>>

\* SeekAndDestroy.choose_target is called: control is at "while self.targets".
SeekAndDestroy_choose_target_call ==
    /\ kind = "SeekAndDestroy"
    /\ frame = "idle"
    /\ MayChoose
    /\ calls' = calls + 1
    /\ depth' = 1
    /\ frame' = "while"
    /\ UNCHANGED <<kind, grid_size, shots, targets, hunt_mode, last, returned, hit_reported,
                   shipVars, calcVars, placeVars, gameVars>>

\* Lines 153-157, one test of "while self.targets": on a non-empty list
\* the last entry is popped, and returned if it is not targeted; on an empty
\* list control goes to the fallback.
SeekAndDestroy_choose_target_while ==
    /\ kind = "SeekAndDestroy"
    /\ frame = "while"
    /\ \/ /\ targets # <<>>
          /\ targets' = SubSeq(targets, 1, Len(targets) - 1)
          /\ IF targets[Len(targets)] \notin shots
             THEN Return(targets[Len(targets)])
             ELSE UNCHANGED <<shots, returned, last, frame, depth>>
       \/ /\ targets = <<>>
          /\ frame' = "choice"
          /\ UNCHANGED <<targets, shots, returned, last, depth>>
    /\ UNCHANGED <<kind, grid_size, hunt_mode, calls, hit_reported, shipVars, calcVars,
                   placeVars, gameVars>>

\* Lines 160-164: the fallback to a random untargeted coordinate.
SeekAndDestroy_choose_target_choice ==
    /\ kind = "SeekAndDestroy"
    /\ frame = "choice"
    /\ Choice(Untargeted(grid_size, shots))
    /\ UNCHANGED <<kind, grid_size, targets, hunt_mode, calls, hit_reported, shipVars,
                   calcVars, placeVars, gameVars>>

\* StrategicGenius.choose_target is called: control is at "if self.hunt_mode".
StrategicGenius_choose_target_call ==
    /\ kind = "StrategicGenius"
    /\ frame = "idle"
    /\ MayChoose
    /\ calls' = calls + 1
    /\ depth' = 1
    /\ frame' = "if"
    /\ UNCHANGED <<kind, grid_size, shots, targets, hunt_mode, last, returned, hit_reported,
                   shipVars, calcVars, placeVars, gameVars>>

\* Line 207: if self.hunt_mode
StrategicGenius_choose_target_if ==
    /\ kind = "StrategicGenius"
    /\ frame = "if"
    /\ frame' = (IF hunt_mode THEN "choice" ELSE "while")
    /\ UNCHANGED <<kind, grid_size, shots, targets, hunt_mode, last, returned, calls,
                   hit_reported, depth, shipVars, calcVars, placeVars, gameVars>>

\* Mutant of StrategicGenius_reinvoke: hunt_mode is not set before the
\* recursive call.
StrategicGenius_reinvoke_targeting ==
    /\ depth' = depth + 1
    /\ frame' = "if"
    /\ UNCHANGED hunt_mode

\* Lines 226-227: self.hunt_mode = True; return self.choose_target() -- a
\* new invocation, which starts at "if self.hunt_mode".
StrategicGenius_reinvoke ==
    /\ hunt_mode' = TRUE
    /\ depth' = depth + 1
    /\ frame' = "if"

\* Lines 220-227, one test of "while self.targets": on a non-empty list
\* the first entry is popped, and returned if it is not targeted; on an
\* empty list choose_target calls itself.
StrategicGenius_choose_target_while ==
    /\ kind = "StrategicGenius"
    /\ frame = "while"
    /\ \/ /\ targets # <<>>
          /\ targets' = Tail(targets)
          /\ IF Head(targets) \notin shots
             THEN Return(Head(targets))
             ELSE UNCHANGED <<shots, returned, last, frame, depth>>
          /\ UNCHANGED hunt_mode
       \/ /\ targets = <<>>
          /\ StrategicGenius_reinvoke
          /\ UNCHANGED <<targets, shots, returned, last>>
    /\ UNCHANGED <<kind, grid_size, calls, hit_reported, shipVars, calcVars, placeVars,
                   gameVars>>

\* Lines 209-217: the hunting pick.
StrategicGenius_choose_target_choice ==
    /\ kind = "StrategicGenius"
    /\ frame = "choice"
    /\ Choice(StrategicGenius_choices(grid_size, shots))
    /\ UNCHANGED <<kind, grid_size, targets, hunt_mode, calls, hit_reported, shipVars,
                   calcVars, placeVars, gameVars>>

\* -------------------------------------------------------------------- Ship

\* Player._calc_positions: None, or the list of the ship's cells.
NoPositions == [none |-> TRUE, positions |-> <<>>]
Positions(l) == [none |-> FALSE, positions |-> l]

\* Mutant of calc_positions: a footprint that touches the far edge is
\* turned down.
calc_positions_edge(n, start, size, orient) ==
    LET r == start[1]
        c == start[2]
    IN IF orient = "h"
       THEN IF c + size >= n
            THEN NoPositions
            ELSE Positions([i \in 1 .. size |-> <<r, c + (i - 1)>>])
       ELSE IF r + size >= n
            THEN NoPositions
            ELSE Positions([i \in 1 .. size |-> <<r + (i - 1), c>>])

\* Mutant of calc_positions: the footprint runs along the anti-diagonal
\* (wrapping at the edge), so its cells all have the parity of the start.
calc_positions_skewed(n, start, size, orient) ==
    LET r == start[1]
        c == start[2]
    IN IF orient = "h"
       THEN IF c + size > n
            THEN NoPositions
            ELSE Positions([i \in 1 .. size |-> <<(r + n - ((i - 1) % n)) % n, c + (i - 1)>>])
       ELSE IF r + size > n
            THEN NoPositions
            ELSE Positions([i \in 1 .. size |-> <<r + (i - 1), (c + n - ((i - 1) % n)) % n>>])

calc_positions(n, start, size, orient) ==
    LET r == start[1]
        c == start[2]
    IN IF orient = "h"
       THEN IF c + size > n
            THEN NoPositions
            ELSE Positions([i \in 1 .. size |-> <<r, c + (i - 1)>>])
       ELSE IF r + size > n
            THEN NoPositions
            ELSE Positions([i \in 1 .. size |-> <<r + (i - 1), c>>])

\* Mutant of InPositions: only the row is compared.
InPositions_rowonly(target, positions) ==
    \E i \in 1 .. Len(positions) : positions[i][1] = target[1]

\* target in self.positions
InPositions(target, positions) == \E i \in 1 .. Len(positions) : positions[i] = target

Ship_check_hit(target) ==
    /\ ship_size > 0
    /\ \/ /\ InPositions(target, ship_positions)
          /\ ship_hits' = ship_hits \cup {target}
          /\ ship_last' = [op |-> "check_hit", target |-> target, ret |-> TRUE]
       \/ /\ ~InPositions(target, ship_positions)
          /\ ship_hits' = ship_hits
          /\ ship_last' = [op |-> "check_hit", target |-> target, ret |-> FALSE]
    /\ UNCHANGED <<ship_size, ship_positions, stratVars, calcVars,
                 placeVars, gameVars>>

\* Mutant of is_sunk: one hit is enough.
is_sunk_anyhit(hits, size) == hits # {}

\* return len(self.hits) == self.size
is_sunk(hits, size) == Cardinality(hits) = size

Ship_is_sunk ==
    /\ ship_size > 0
    /\ ship_last' = [op |-> "is_sunk", target |-> <<>>, ret |-> is_sunk(ship_hits, ship_size)]
    /\ UNCHANGED <<ship_size, ship_positions, ship_hits, stratVars, calcVars,
                 placeVars, gameVars>>

\* One call of Player._calc_positions on its own.
Player_calc_positions ==
    /\ ~calc_result.called
    /\ calc_result' =
            [called |-> TRUE,
             value |-> calc_positions(grid_size, calc_args.start, calc_args.size,
                                      calc_args.orient)]
    /\ UNCHANGED <<calc_args, stratVars, shipVars, placeVars, gameVars>>

\* -------------------------------------------------------------------- text

\* string.ascii_uppercase (its first letters)
ascii_uppercase == <<"A", "B", "C", "D", "E", "F", "G", "H">>

\* The letters that str.upper / str.lower change, among the characters typed.
Cases ==
    {<<"a", "A">>, <<"b", "B">>, <<"c", "C">>, <<"d", "D">>, <<"h", "H">>, <<"q", "Q">>,
     <<"v", "V">>, <<"x", "X">>}

\* str.upper, str.lower
upper(text) ==
    [i \in 1 .. Len(text) |->
        IF \E p \in Cases : p[1] = text[i]
        THEN (CHOOSE p \in Cases : p[1] = text[i])[2]
        ELSE text[i]]
lower(text) ==
    [i \in 1 .. Len(text) |->
        IF \E p \in Cases : p[2] = text[i]
        THEN (CHOOSE p \in Cases : p[2] = text[i])[1]
        ELSE text[i]]

digits == <<"0", "1", "2", "3", "4", "5", "6", "7", "8", "9">>

\* int(text) raises ValueError unless text is a number; of the characters
\* typed only the digits make one.
IsNumber(text) ==
    /\ Len(text) > 0
    /\ \A i \in 1 .. Len(text) : \E d \in 1 .. Len(digits) : digits[d] = text[i]

RECURSIVE int(_)
int(text) ==
    IF Len(text) = 0
    THEN 0
    ELSE int(SubSeq(text, 1, Len(text) - 1)) * Len(digits)
            + (CHOOSE d \in 1 .. Len(digits) : digits[d] = text[Len(text)]) - 1

\* str(k) for k >= 0
RECURSIVE str(_)
str(k) ==
    IF k < Len(digits)
    THEN <<digits[k + 1]>>
    ELSE str(k \div Len(digits)) \o <<digits[(k % Len(digits)) + 1]>>

\* Player._parse: None, or the coordinate.
None == [none |-> TRUE, coord |-> <<>>]
Coord(p) == [none |-> FALSE, coord |-> p]

parse(coord, n) ==
    IF \/ Len(coord) < 2
       \/ ~\E i \in 1 .. n : i <= Len(ascii_uppercase) /\ ascii_uppercase[i] = coord[1]
    THEN None
    ELSE LET r == (CHOOSE i \in 1 .. n : ascii_uppercase[i] = coord[1]) - 1
             rest == SubSeq(coord, 2, Len(coord))
         IN IF ~IsNumber(rest)
            THEN None
            ELSE LET c == int(rest) - 1
                 IN IF 0 <= c /\ c < n THEN Coord(<<r, c>>) ELSE None

\* f"{string.ascii_uppercase[pc_tgt[0]]}{pc_tgt[1]+1}"
format(coord) == <<ascii_uppercase[coord[1] + 1]>> \o str(coord[2] + 1)

\* The lines typed at the prompts of Game.play and of Player.__init__
\* (input(...).strip() of them: no surrounding blanks): every cell of a board
\* of up to three rows and columns, in either case, and lines _parse turns
\* down for their length, their letter, their number or their column.
Lines ==
    {<<x, y>> : x \in {"a", "B", "c"}, y \in {"1", "2", "3"}}
        \cup {<<>>, <<"a">>, <<"1">>, <<"q">>, <<"Q">>, <<"a", "0">>, <<"a", "?">>,
              <<"1", "1">>, <<"?", "1">>, <<"d", "1">>, <<"a", "4">>, <<"a", "0", "1">>,
              <<"B", "1", "0">>, <<"a", "1", "?">>}

\* The lines typed at the orientation prompt.
Orients == {<<>>, <<"h">>, <<"v">>, <<"H">>, <<"V">>, <<"x">>, <<"h", "v">>}

\* --------------------------------------------------------------- placement

\* Ship(size, positions)
Ship(size, positions) == [size |-> size, positions |-> positions, hits |-> {}]

\* Mutant of Overlaps: only the first cell of the footprint is looked up.
Overlaps_first(positions, occ) == positions[1] \in occ

\* any(p in occupied for p in positions)
Overlaps(positions, occ) == \E i \in 1 .. Len(positions) : positions[i] \in occ

\* if positions and not any(p in occupied for p in positions): None and the
\* empty list are both false.
Fits(p, occ) == ~p.none /\ Len(p.positions) > 0 /\ ~Overlaps(p.positions, occ)

\* The placement of the next ship being attempted: for size in ship_sizes.
Placing == placement # "none" /\ Len(ships) < Len(ship_sizes)

\* What an attempt leaves behind: a ship placed from start with orient, or
\* the reason why none was ("input": no coordinate or no orientation typed;
\* "bounds": _calc_positions returned None; "overlap": a cell is occupied).
Attempt(start, orient, placed, why) ==
    [start |-> start, orient |-> orient, placed |-> placed, why |-> why]

\* Mutant of Place: the cells of a footprint that is turned down for an
\* occupied cell are occupied all the same.
Place_marking(start, orient, valid) ==
    LET size == ship_sizes[Len(ships) + 1]
        p == IF valid
             THEN calc_positions(grid_size, start.coord, size, orient[1])
             ELSE NoPositions
    IN /\ IF valid /\ Fits(p, occupied)
          THEN /\ occupied' = occupied \cup {p.positions[i] : i \in 1 .. Len(p.positions)}
               /\ ships' = Append(ships, Ship(size, p.positions))
               /\ place_last' = Attempt(start, orient, TRUE, "")
          ELSE /\ occupied' = occupied \cup {p.positions[i] : i \in 1 .. Len(p.positions)}
               /\ UNCHANGED ships
               /\ place_last' =
                    Attempt(None, <<>>, FALSE,
                            IF ~valid THEN "input"
                            ELSE IF p.none \/ Len(p.positions) = 0 THEN "bounds"
                            ELSE "overlap")
       /\ UNCHANGED <<placement, ship_sizes, stratVars, shipVars, calcVars, gameVars>>

\* One attempt of the while loop with the start and the orientation (a text)
\* the caller has got: the ship is appended and its cells occupied, or
\* nothing changes and the loop goes round again.
Place(start, orient, valid) ==
    LET size == ship_sizes[Len(ships) + 1]
        p == IF valid
             THEN calc_positions(grid_size, start.coord, size, orient[1])
             ELSE NoPositions
    IN /\ IF valid /\ Fits(p, occupied)
          THEN /\ occupied' = occupied \cup {p.positions[i] : i \in 1 .. Len(p.positions)}
               /\ ships' = Append(ships, Ship(size, p.positions))
               /\ place_last' = Attempt(start, orient, TRUE, "")
          ELSE /\ UNCHANGED <<occupied, ships>>
               /\ place_last' =
                    Attempt(None, <<>>, FALSE,
                            IF ~valid THEN "input"
                            ELSE IF p.none \/ Len(p.positions) = 0 THEN "bounds"
                            ELSE "overlap")
       /\ UNCHANGED <<placement, ship_sizes, stratVars, shipVars, calcVars, gameVars>>

\* Player.random_placement, one attempt: orient = random.choice(['h','v']),
\* start = (random.randrange(grid_size), random.randrange(grid_size)).
Player_random_placement(orient, start) ==
    /\ placement = "random_placement"
    /\ Placing
    /\ Place(Coord(start), <<orient>>, TRUE)

\* Player.__init__, one attempt: the two lines typed, coord upper-cased and
\* parsed, orient lower-cased; "if orient in ('h','v') and start".
Player_init(coord, orient) ==
    /\ placement = "__init__"
    /\ Placing
    /\ LET start == parse(upper(coord), grid_size)
           o == lower(orient)
       IN Place(start, o, o \in {<<"h">>, <<"v">>} /\ ~start.none)

\* Every fleet a placement of the lengths sizes[i ..] can end with, from the
\* ships placed and the cells occupied so far.
RECURSIVE Fleets(_, _, _, _, _)
Fleets(n, sizes, i, placed, occ) ==
    IF i > Len(sizes)
    THEN {placed}
    ELSE UNION {
            LET p == calc_positions(n, so[1], sizes[i], so[2])
            IN IF Fits(p, occ)
               THEN Fleets(n, sizes, i + 1, Append(placed, Ship(sizes[i], p.positions)),
                           occ \cup {p.positions[k] : k \in 1 .. Len(p.positions)})
               ELSE {}
            : so \in Board(n) \X {"h", "v"}}

\* -------------------------------------------------------------------- Grid

\* Grid.__init__: self.cells
Grid(n) == [p \in Board(n) |-> " "]

\* Grid.update: self.cells[target] = 'X' if hit else 'O'
Grid_update(cells, target, hit) ==
    [p \in DOMAIN cells \cup {target} |->
        IF p = target THEN (IF hit THEN "X" ELSE "O") ELSE cells[p]]

\* ------------------------------------------------------------------- fleet

\* Mutant of check_hit: the target is recorded whether or not it is a
\* position of the ship.
check_hit_recording(ship, target) ==
    [ret |-> InPositions(target, ship.positions),
     ship |-> [ship EXCEPT !.hits = @ \cup {target}]]

\* Ship.check_hit on a ship of a fleet: what it returns, and the ship after.
check_hit(ship, target) ==
    IF InPositions(target, ship.positions)
    THEN [ret |-> TRUE, ship |-> [ship EXCEPT !.hits = @ \cup {target}]]
    ELSE [ret |-> FALSE, ship |-> ship]

\* any(s.check_hit(target) for s in fleet): the ships are asked in order,
\* from the i-th on, and the first one hit ends the iteration.
RECURSIVE any_check_hit(_, _, _)
any_check_hit(fleet, target, i) ==
    IF i > Len(fleet)
    THEN [hit |-> FALSE, ships |-> fleet]
    ELSE LET r == check_hit(fleet[i], target)
         IN IF r.ret
            THEN [hit |-> TRUE, ships |-> [fleet EXCEPT ![i] = r.ship]]
            ELSE any_check_hit([fleet EXCEPT ![i] = r.ship], target, i + 1)

\* Mutant of all_sunk: one sunk ship is enough.
all_sunk_any(fleet) ==
    \E i \in 1 .. Len(fleet) : is_sunk(fleet[i].hits, fleet[i].size)

\* Player.all_sunk: all(s.is_sunk() for s in self.ships)
all_sunk(fleet) ==
    \A i \in 1 .. Len(fleet) : is_sunk(fleet[i].hits, fleet[i].size)

\* ---------------------------------------------------------- specifications

\* The instance right after strategies[ai_choice](grid_size).
StrategyInit ==
    /\ kind \in Kinds
    /\ grid_size \in GridSizes
    /\ shots = {}
    /\ targets = <<>>
    /\ hunt_mode = TRUE
    /\ last = NoCall
    /\ returned = {}
    /\ calls = 0
    /\ hit_reported = FALSE
    /\ frame = "idle"
    /\ depth = 0

\* No ship is under study in the strategy specifications.
NoShip ==
    /\ ship_size = 0
    /\ ship_positions = <<>>
    /\ ship_hits = {}
    /\ ship_last = [op |-> "__init__", target |-> <<>>, ret |-> FALSE]

\* No call of _calc_positions, no placement and no game is under study in
\* the strategy and ship specifications.
NoCalc ==
    /\ calc_args = [start |-> <<0, 0>>, size |-> 0, orient |-> "h"]
    /\ calc_result = [called |-> FALSE, value |-> NoPositions]

NoAttempt == Attempt(None, <<>>, FALSE, "")

NoPlacement ==
    /\ placement = "none"
    /\ ship_sizes = <<>>
    /\ ships = <<>>
    /\ occupied = {}
    /\ place_last = NoAttempt

NoGame ==
    /\ computer_ships = <<>>
    /\ player_ships = <<>>
    /\ computer_cells = <<>>
    /\ player_cells = <<>>
    /\ phase = "none"
    /\ pc_tgt = <<>>
    /\ hit_pc = FALSE
    /\ reports = <<>>

Init == StrategyInit /\ NoShip /\ NoCalc /\ NoPlacement /\ NoGame

choose_target ==
    \/ RandomShooter_choose_target
    \/ SeekAndDestroy_choose_target
    \/ StrategicGenius_choose_target

process_result(coord, hit) ==
    \/ AIStrategy_process_result(coord, hit)
    \/ SeekAndDestroy_process_result(coord, hit)
    \/ StrategicGenius_process_result(coord, hit)

Next ==
    \/ choose_target
    \/ \E coord \in Coords(grid_size), hit \in BOOLEAN : process_result(coord, hit)

\* Any strategy, any caller.
Spec == Init /\ [][Next]_vars

\* One strategy class each.
RandomInit == Init /\ kind = "RandomShooter"

RandomNext ==
    \/ RandomShooter_choose_target
    \/ \E coord \in Coords(grid_size), hit \in BOOLEAN :
            AIStrategy_process_result(coord, hit)

SpecRandom == RandomInit /\ [][RandomNext]_vars

SeekInit == Init /\ kind = "SeekAndDestroy"

SeekNext ==
    \/ SeekAndDestroy_choose_target
    \/ \E coord \in Coords(grid_size), hit \in BOOLEAN :
            SeekAndDestroy_process_result(coord, hit)

SpecSeek == SeekInit /\ [][SeekNext]_vars

GeniusInit == Init /\ kind = "StrategicGenius"

GeniusNext ==
    \/ StrategicGenius_choose_target
    \/ \E coord \in Coords(grid_size), hit \in BOOLEAN :
            StrategicGenius_process_result(coord, hit)

SpecGenius == GeniusInit /\ [][GeniusNext]_vars

\* One ship, as placement creates it (Player.random_placement, lines
\* 462-467, and Player.__init__, lines 379-385): Ship(size, positions) with
\* positions = _calc_positions(start, size, orient), not None.  No strategy
\* is under study in the ship specification.
ShipInit ==
    /\ grid_size \in GridSizes
    /\ \E size \in 1 .. MaxShip, start \in Board(grid_size), orient \in {"h", "v"} :
        LET p == calc_positions(grid_size, start, size, orient) IN
            /\ ~p.none
            /\ ship_size = size
            /\ ship_positions = p.positions
    /\ ship_hits = {}
    /\ ship_last = [op |-> "__init__", target |-> <<>>, ret |-> FALSE]
    /\ kind = "none"
    /\ shots = {}
    /\ targets = <<>>
    /\ hunt_mode = TRUE
    /\ last = NoCall
    /\ returned = {}
    /\ calls = 0
    /\ hit_reported = FALSE
    /\ frame = "idle"
    /\ depth = 0
    /\ NoCalc
    /\ NoPlacement
    /\ NoGame

ShipNext ==
    \/ \E target \in Coords(grid_size) : Ship_check_hit(target)
    \/ Ship_is_sunk

SpecShip == ShipInit /\ [][ShipNext]_vars

\* No strategy is under study in the specifications of _calc_positions and of
\* the placements.
NoStrategy ==
    /\ kind = "none"
    /\ shots = {}
    /\ targets = <<>>
    /\ hunt_mode = TRUE
    /\ last = NoCall
    /\ returned = {}
    /\ calls = 0
    /\ hit_reported = FALSE
    /\ frame = "idle"
    /\ depth = 0

\* The boards on which _calc_positions is called on its own.
CalcGridSizes == {1, 2, 3, 4}

\* One call of _calc_positions(start, size, orient) as the placements make
\* it: start on the board (from _parse, or from random.randrange), orient
\* 'h' or 'v', size a requested ship length.
CalcInit ==
    /\ grid_size \in CalcGridSizes
    /\ calc_args \in [start : Board(grid_size), size : 1 .. (MaxShip + 1),
                      orient : {"h", "v"}]
    /\ calc_result = [called |-> FALSE, value |-> NoPositions]
    /\ NoStrategy
    /\ NoShip
    /\ NoPlacement
    /\ NoGame

CalcNext == Player_calc_positions

SpecCalc == CalcInit /\ [][CalcNext]_vars

\* The boards and ship lengths whose placement is explored: presets like
\* those of BoardPreset._presets, on smaller boards.
PlacePresets ==
    {[grid_size |-> 2, ship_sizes |-> <<1, 2>>],
     [grid_size |-> 3, ship_sizes |-> <<2, 2, 3>>]}

\* Player.random_placement(grid_size, ship_sizes) or
\* Player(grid_size, ship_sizes), before the first attempt.
PlaceInit ==
    /\ \E preset \in PlacePresets :
        /\ grid_size = preset.grid_size
        /\ ship_sizes = preset.ship_sizes
    /\ placement \in {"random_placement", "__init__"}
    /\ ships = <<>>
    /\ occupied = {}
    /\ place_last = NoAttempt
    /\ NoStrategy
    /\ NoShip
    /\ NoCalc
    /\ NoGame

PlaceNext ==
    \/ \E orient \in {"h", "v"}, start \in Board(grid_size) :
            Player_random_placement(orient, start)
    \/ \E coord \in Lines, orient \in Orients : Player_init(coord, orient)

SpecPlace == PlaceInit /\ [][PlaceNext]_vars

\* Mutant of small: the same ships on a 3 x 3 board.
small_cramped == [grid_size |-> 3, ship_sizes |-> <<2, 2, 3>>]

\* BoardPreset._presets['small']
small == [grid_size |-> 5, ship_sizes |-> <<2, 2, 3>>]

\* Player.random_placement on the small preset, before the first attempt.
SmallInit ==
    /\ grid_size = small.grid_size
    /\ ship_sizes = small.ship_sizes
    /\ placement = "random_placement"
    /\ ships = <<>>
    /\ occupied = {}
    /\ place_last = NoAttempt
    /\ NoStrategy
    /\ NoShip
    /\ NoCalc
    /\ NoGame

SmallNext ==
    \E orient \in {"h", "v"}, start \in Board(grid_size) :
        Player_random_placement(orient, start)

\* An attempt that places the ship.
Placed == SmallNext /\ Len(ships') > Len(ships)

\* random.choice and random.randrange draw every orientation and every
\* start again and again: an attempt that places the ship, possible at every
\* round of the while loop, is eventually drawn.
SpecSmall == SmallInit /\ [][SmallNext]_vars /\ WF_vars(Placed)

\* -------------------------------------------------------------------- Game

\* The entries of Game.reports: the message, the coordinate text in it and
\* the result in it.
Report(msg, text, hit) == [msg |-> msg, coord |-> text, hit |-> hit]

\* Mutant of AlreadyFired: no cell counts as fired at.
AlreadyFired_never(cells, tgt) == FALSE

\* Mutant of AlreadyFired: only a hit cell counts as fired at.
AlreadyFired_hitonly(cells, tgt) == cells[tgt] = "X"

\* self.computer.grid.cells[tgt] != ' '
AlreadyFired(cells, tgt) == cells[tgt] # " "

\* Game.play, lines 512-548: one round of the loop up to the AI turn.  The
\* reports of the round before are shown and dropped, the line typed is
\* read; 'q' exits; a line that is not a coordinate, or names a cell fired
\* at before, is reported and the loop starts over; otherwise the attack is
\* resolved against the computer's fleet and, if that fleet is sunk,
\* display_and_exit() ends the program.
Game_play_player(line) ==
    /\ phase = "prompt"
    /\ LET move == lower(line)
           tgt == parse(upper(move), grid_size)
       IN IF move = <<"q">>
          THEN /\ phase' = "quit"
               /\ reports' = <<>>
               /\ UNCHANGED <<computer_ships, computer_cells>>
          ELSE IF tgt.none
          THEN /\ reports' = <<Report("Invalid coordinate!", <<>>, FALSE)>>
               /\ UNCHANGED <<phase, computer_ships, computer_cells>>
          ELSE IF AlreadyFired(computer_cells, tgt.coord)
          THEN /\ reports' = <<Report("You already fired at", upper(move), FALSE)>>
               /\ UNCHANGED <<phase, computer_ships, computer_cells>>
          ELSE LET a == any_check_hit(computer_ships, tgt.coord, 1)
                   fire == Report("You fire at", upper(move), a.hit)
               IN /\ computer_ships' = a.ships
                  /\ computer_cells' = Grid_update(computer_cells, tgt.coord, a.hit)
                  /\ IF all_sunk(a.ships)
                     THEN /\ reports' = <<fire, Report("You win!", <<>>, FALSE)>>
                          /\ phase' = "won"
                     ELSE /\ reports' = <<fire>>
                          /\ phase' = "ai_turn"
    /\ UNCHANGED <<player_ships, player_cells, pc_tgt, hit_pc, stratVars, shipVars,
                   calcVars, placeVars>>

\* Mutant of Game_play_choose_target: the strategy may be asked again
\* before its target is fired at.
Game_play_choose_target_again ==
    /\ phase = "ai_turn"
    /\ choose_target

\* Game.play, line 551: pc_tgt = self.pc_ctrl.choose_target()
Game_play_choose_target ==
    /\ phase = "ai_turn"
    /\ last.op # "choose_target"
    /\ choose_target

\* Game.play, lines 551-553: the coordinate returned becomes pc_tgt and the
\* attack is resolved against the player's fleet; an exception raised by
\* choose_target ends the program.
Game_play_attack ==
    /\ phase = "ai_turn"
    /\ last.op = "choose_target"
    /\ IF last.raised
       THEN /\ phase' = "raised"
            /\ UNCHANGED <<player_ships, player_cells, pc_tgt, hit_pc>>
       ELSE LET a == any_check_hit(player_ships, last.ret, 1)
            IN /\ pc_tgt' = last.ret
               /\ hit_pc' = a.hit
               /\ player_ships' = a.ships
               /\ player_cells' = Grid_update(player_cells, last.ret, a.hit)
               /\ phase' = "ai_attacked"
    /\ UNCHANGED <<computer_ships, computer_cells, reports, stratVars, shipVars,
                   calcVars, placeVars>>

\* Game.play, line 554: self.pc_ctrl.process_result(pc_tgt, hit_pc)
Game_play_process_result ==
    /\ phase = "ai_attacked"
    /\ last.op = "choose_target"
    /\ process_result(pc_tgt, hit_pc)

\* Game.play, lines 555-559: the AI's shot is reported and, if the player's
\* fleet is sunk, display_and_exit() ends the program; else the loop starts
\* over.
Game_play_report ==
    /\ phase = "ai_attacked"
    /\ last.op = "process_result"
    /\ LET fire == Report("Computer fires at", format(pc_tgt), hit_pc)
       IN IF all_sunk(player_ships)
          THEN /\ reports' = reports \o <<fire, Report("You lose!", <<>>, FALSE)>>
               /\ phase' = "lost"
          ELSE /\ reports' = Append(reports, fire)
               /\ phase' = "prompt"
    /\ UNCHANGED <<computer_ships, player_ships, computer_cells, player_cells, pc_tgt,
                   hit_pc, stratVars, shipVars, calcVars, placeVars>>

\* The boards and fleets on which the game is explored.
GamePresets ==
    {[grid_size |-> 1, ship_sizes |-> <<1>>],
     [grid_size |-> 2, ship_sizes |-> <<2, 1>>]}

\* Game.__init__: the strategy chosen, the player's fleet placed by
\* Player(...), the computer's by Player.random_placement(...), both grids
\* blank, no report; play() is at its first prompt.
GameInit ==
    /\ kind \in Kinds
    /\ \E preset \in GamePresets :
        /\ grid_size = preset.grid_size
        /\ player_ships \in Fleets(preset.grid_size, preset.ship_sizes, 1, <<>>, {})
        /\ computer_ships \in Fleets(preset.grid_size, preset.ship_sizes, 1, <<>>, {})
    /\ player_cells = Grid(grid_size)
    /\ computer_cells = Grid(grid_size)
    /\ phase = "prompt"
    /\ pc_tgt = <<>>
    /\ hit_pc = FALSE
    /\ reports = <<>>
    /\ shots = {}
    /\ targets = <<>>
    /\ hunt_mode = TRUE
    /\ last = NoCall
    /\ returned = {}
    /\ calls = 0
    /\ hit_reported = FALSE
    /\ frame = "idle"
    /\ depth = 0
    /\ NoShip
    /\ NoCalc
    /\ NoPlacement

GameNext ==
    \/ \E line \in Lines : Game_play_player(line)
    \/ Game_play_choose_target
    \/ Game_play_attack
    \/ Game_play_process_result
    \/ Game_play_report

SpecGame == GameInit /\ [][GameNext]_vars

\* The statements of the AI turn (lines 551-559) read no input: once the
\* player's attack is resolved they run one after the other.
AITurn ==
    \/ Game_play_choose_target
    \/ Game_play_attack
    \/ Game_play_process_result
    \/ Game_play_report

FairSpecGame == SpecGame /\ WF_vars(AITurn)

\* The board and fleet on which a whole game against StrategicGenius is
\* explored: the smallest on which hunting falls back to the full pool while
\* a ship is afloat.
GeniusPreset == [grid_size |-> 3, ship_sizes |-> <<2, 1>>]

\* Game.__init__ with ai_choice 'hard' on that board: the player's fleet is
\* any fleet, the computer's one whose first ship holds the last cell of the
\* board (the cell the player of this game fires at last).
GeniusGameInit ==
    /\ kind = "StrategicGenius"
    /\ grid_size = GeniusPreset.grid_size
    /\ player_ships \in Fleets(GeniusPreset.grid_size, GeniusPreset.ship_sizes, 1, <<>>, {})
    /\ computer_ships =
            CHOOSE f \in Fleets(GeniusPreset.grid_size, GeniusPreset.ship_sizes, 1, <<>>, {}) :
                InPositions(<<GeniusPreset.grid_size - 1, GeniusPreset.grid_size - 1>>,
                            f[1].positions)
    /\ player_cells = Grid(grid_size)
    /\ computer_cells = Grid(grid_size)
    /\ phase = "prompt"
    /\ pc_tgt = <<>>
    /\ hit_pc = FALSE
    /\ reports = <<>>
    /\ shots = {}
    /\ targets = <<>>
    /\ hunt_mode = TRUE
    /\ last = NoCall
    /\ returned = {}
    /\ calls = 0
    /\ hit_reported = FALSE
    /\ frame = "idle"
    /\ depth = 0
    /\ NoShip
    /\ NoCalc
    /\ NoPlacement

\* The first blank cell of a board, row by row.
FirstBlank(cells) ==
    CHOOSE p \in DOMAIN cells :
        /\ cells[p] = " "
        /\ \A q \in DOMAIN cells :
                cells[q] = " " => (p[1] < q[1] \/ (p[1] = q[1] /\ p[2] <= q[2]))

\* The player of this game fires at the enemy board row by row: the line
\* typed names its first blank cell.
Game_play_player_in_order ==
    \E line \in Lines :
        /\ \E p \in DOMAIN computer_cells : computer_cells[p] = " "
        /\ parse(upper(line), grid_size) = Coord(FirstBlank(computer_cells))
        /\ Game_play_player(line)

GeniusGameNext ==
    \/ Game_play_player_in_order
    \/ Game_play_choose_target
    \/ Game_play_attack
    \/ Game_play_process_result
    \/ Game_play_report

SpecGeniusGame == GeniusGameInit /\ [][GeniusGameNext]_vars

\* The strategies with a queue, their choose_target run statement by
\* statement.  process_result is called between two calls of choose_target
\* (the program has one thread).
CallInit ==
    /\ kind \in {"SeekAndDestroy", "StrategicGenius"}
    /\ grid_size \in GridSizes
    /\ shots = {}
    /\ targets = <<>>
    /\ hunt_mode = TRUE
    /\ last = NoCall
    /\ returned = {}
    /\ calls = 0
    /\ hit_reported = FALSE
    /\ frame = "idle"
    /\ depth = 0
    /\ NoShip
    /\ NoCalc
    /\ NoPlacement
    /\ NoGame

\* The statements of a choose_target call under way.
Running ==
    \/ SeekAndDestroy_choose_target_while
    \/ SeekAndDestroy_choose_target_choice
    \/ StrategicGenius_choose_target_if
    \/ StrategicGenius_choose_target_while
    \/ StrategicGenius_choose_target_choice

CallNext ==
    \/ SeekAndDestroy_choose_target_call
    \/ StrategicGenius_choose_target_call
    \/ Running
    \/ \E coord \in Coords(grid_size), hit \in BOOLEAN :
            /\ frame = "idle"
            /\ \/ SeekAndDestroy_process_result(coord, hit)
               \/ StrategicGenius_process_result(coord, hit)

SpecCall == CallInit /\ [][CallNext]_vars

\* A call that has been made executes: its statements read no input and
\* wait for nothing.
FairSpecCall == SpecCall /\ WF_vars(Running)

\* ------------------------------------------------------------------ claims

\* A step that is a call of choose_target / of process_result.
ChooseStep == calls' # calls
ProcessStep == last'.op = "process_result" /\ calls' = calls

\* C1: no self-repeat.  In every strategy and under every interleaving of
\* calls, a coordinate that choose_target returns has not been returned by
\* the instance before, and it is in self.shots when the call returns.
C1_NoSelfRepeat ==
    [][(ChooseStep /\ ~last'.raised) =>
            /\ last'.ret \notin returned
            /\ last'.ret \in shots']_vars

\* choose_target has just returned a coordinate while the queue still holds
\* an entry that is already targeted, and earlier calls returned others.
C1_Witness ==
    /\ kind = "SeekAndDestroy"
    /\ last.op = "choose_target" /\ ~last.raised
    /\ Cardinality(returned) >= 2
    /\ \E i \in 1 .. Len(targets) : targets[i] \in shots

\* C2: coverage.  On a fresh RandomShooter the first grid_size^2 calls of
\* choose_target all succeed and return pairwise distinct coordinates of
\* the board; after grid_size^2 calls every coordinate has been returned.
C2_Coverage ==
    (kind = "RandomShooter" /\ calls <= grid_size * grid_size) =>
        /\ ~last.raised
        /\ Cardinality(returned) = calls
        /\ returned \subseteq Board(grid_size)
        /\ (calls = grid_size * grid_size => returned = Board(grid_size))

\* Nine calls on a 3 x 3 board have returned all nine coordinates.
C2_Witness ==
    /\ kind = "RandomShooter"
    /\ grid_size = 3
    /\ calls = 9
    /\ returned = Board(3)
    /\ last.op = "choose_target"

\* C3: exhausted board.  In every strategy, a choose_target call made when
\* every coordinate of the board is in self.shots raises (IndexError, from
\* random.choice on an empty list) and returns no coordinate; self.shots
\* stays as it is.
C3_ExhaustedRaises ==
    [][(ChooseStep /\ shots = Board(grid_size)) =>
            /\ last'.raised
            /\ last'.ret = <<>>
            /\ shots' = shots]_vars

\* StrategicGenius has raised on a fully targeted 2 x 2 board after hits
\* had been reported.
C3_Witness ==
    /\ kind = "StrategicGenius"
    /\ grid_size = 2
    /\ shots = Board(2)
    /\ last.op = "choose_target" /\ last.raised
    /\ hit_reported

\* (row + column) even
EvenParity(p) == (p[1] + p[2]) % 2 = 0
EvenCells(n) == {p \in Board(n) : EvenParity(p)}

\* The positions of the queue entries that are not yet targeted.
FreshEntries == {i \in 1 .. Len(targets) : targets[i] \notin shots}

\* C4: phased parity.  A coordinate that StrategicGenius.choose_target picks
\* by hunting (called in Hunting state, or in Targeting state with no
\* untargeted queue entry) has even row + column unless every even cell is
\* already targeted.  With no hit reported, the first ceil(N*N/2) picks on
\* an N x N board are pairwise distinct even cells, and the ceil(N*N/2)-th
\* completes the even cells.
C4_PhasedParity ==
    /\ [][(ChooseStep /\ ~last'.raised /\ (hunt_mode \/ FreshEntries = {})) =>
            (EvenParity(last'.ret) \/ EvenCells(grid_size) \subseteq shots)]_vars
    /\ []((kind = "StrategicGenius" /\ ~hit_reported
                /\ calls <= Cardinality(EvenCells(grid_size))) =>
            /\ ~last.raised
            /\ returned \subseteq EvenCells(grid_size)
            /\ Cardinality(returned) = calls)

\* With no hit reported on a 3 x 3 board, the sixth pick is an odd cell:
\* the five even cells were picked first.
C4_Witness ==
    /\ kind = "StrategicGenius"
    /\ grid_size = 3
    /\ ~hit_reported
    /\ calls = 6
    /\ last.op = "choose_target" /\ ~last.raised
    /\ ~EvenParity(last.ret)
    /\ EvenCells(3) \subseteq shots

\* The neighbours of coord that process_result enqueues, stated directly:
\* right, left, down, up, each if on the board and not targeted.
C5_Enqueued(coord) ==
    LET r == coord[1]
        c == coord[2]
        Keep(p) == IF /\ p[1] \in 0 .. (grid_size - 1)
                      /\ p[2] \in 0 .. (grid_size - 1)
                      /\ p \notin shots
                   THEN <<p>> ELSE <<>>
    IN Keep(<<r, c + 1>>) \o Keep(<<r, c - 1>>) \o Keep(<<r + 1, c>>) \o Keep(<<r - 1, c>>)

\* C5: phase transition on hit.  StrategicGenius.process_result(coord, True),
\* in either state, leaves hunt_mode False, appends to the back of the queue
\* the on-board, untargeted neighbours of coord in the order right, left,
\* down, up, and leaves self.shots as it is.
C5_PhaseTransition ==
    [][(ProcessStep /\ last'.hit /\ kind = "StrategicGenius") =>
            /\ hunt_mode' = FALSE
            /\ targets' = targets \o C5_Enqueued(last'.coord)
            /\ shots' = shots]_vars

\* A hit at (0,1) on a 3 x 3 board reported in Targeting state: the left
\* neighbour (0,0) is targeted and skipped, (0,2) and (1,1) go behind the
\* entry (1,0) that was queued before.
C5_Witness ==
    /\ kind = "StrategicGenius"
    /\ grid_size = 3
    /\ last = Processed(<<0, 1>>, TRUE)
    /\ <<0, 0>> \in shots
    /\ ~hunt_mode
    /\ targets = << <<1, 0>>, <<0, 2>>, <<1, 1>> >>

\* C6: targeting drain and re-entry.  In Targeting state choose_target
\* returns the first queue entry that is not targeted, drops it and the
\* entries in front of it, and stays in Targeting state (also when the
\* queue is now empty).  Only a call that finds no untargeted entry empties
\* the queue, returns to Hunting and makes a hunting pick (or raises); no
\* other step returns to Hunting.
C6_TargetingDrain ==
    [][/\ (ChooseStep /\ kind = "StrategicGenius" /\ ~hunt_mode /\ FreshEntries # {}) =>
            LET m == CHOOSE i \in FreshEntries : \A j \in FreshEntries : i <= j IN
                /\ last' = Returned(targets[m])
                /\ targets' = SubSeq(targets, m + 1, Len(targets))
                /\ shots' = shots \cup {targets[m]}
                /\ hunt_mode' = FALSE
       /\ (ChooseStep /\ kind = "StrategicGenius" /\ ~hunt_mode /\ FreshEntries = {}) =>
                /\ hunt_mode' = TRUE
                /\ targets' = <<>>
                /\ \/ last'.raised /\ shots = Board(grid_size)
                   \/ /\ ~last'.raised
                      /\ last'.ret \in Board(grid_size) \ shots
                      /\ shots' = shots \cup {last'.ret}
       /\ (~hunt_mode /\ hunt_mode') =>
                (ChooseStep /\ FreshEntries = {})]_vars

\* A hit at (1,1) on a 3 x 3 board queued four neighbours; four calls
\* returned them, the last one (0,1), the "up" neighbour; the queue is
\* empty and the state is still Targeting.
C6_Witness ==
    /\ kind = "StrategicGenius"
    /\ grid_size = 3
    /\ shots = {<<1, 1>>, <<1, 2>>, <<1, 0>>, <<2, 1>>, <<0, 1>>}
    /\ last = Returned(<<0, 1>>)
    /\ targets = <<>>
    /\ ~hunt_mode

\* The cells of the board next to coord along one axis.
AxisNeighbours(coord) ==
    {p \in Board(grid_size) :
        \/ p[1] = coord[1] /\ (p[2] = coord[2] + 1 \/ p[2] = coord[2] - 1)
        \/ p[2] = coord[2] /\ (p[1] = coord[1] + 1 \/ p[1] = coord[1] - 1)}

SeqRange(q) == {q[i] : i \in 1 .. Len(q)}

\* C7: seek neighbour enqueue.  SeekAndDestroy.process_result(coord, True)
\* leaves the existing entries in place and pushes after them the on-board
\* axis neighbours of coord, each exactly once, targeted or not;
\* self.shots stays as it is.
C7_SeekEnqueue ==
    [][(ProcessStep /\ last'.hit /\ kind = "SeekAndDestroy") =>
            LET k == Len(targets') - Len(targets)
                pushed == SubSeq(targets', Len(targets) + 1, Len(targets'))
            IN /\ k = Cardinality(AxisNeighbours(last'.coord))
               /\ SubSeq(targets', 1, Len(targets)) = targets
               /\ SeqRange(pushed) = AxisNeighbours(last'.coord)
               /\ shots' = shots]_vars

\* The 3 x 3 example: a hit at (1,1) left the queue holding exactly the
\* four neighbours.
C7_Witness ==
    /\ kind = "SeekAndDestroy"
    /\ grid_size = 3
    /\ last = Processed(<<1, 1>>, TRUE)
    /\ Len(targets) = 4
    /\ SeqRange(targets) = {<<0, 1>>, <<2, 1>>, <<1, 0>>, <<1, 2>>}

\* C8: seek LIFO selection with fallback.  SeekAndDestroy.choose_target
\* returns the last queue entry that is not targeted and removes it and
\* every entry behind it.  With no untargeted entry in the queue it empties
\* the queue and picks from the untargeted pool (or raises when the pool is
\* empty).  With no hit reported the first grid_size^2 calls return pairwise
\* distinct board coordinates, as RandomShooter's do.
C8_SeekLifo ==
    /\ [][/\ (ChooseStep /\ kind = "SeekAndDestroy" /\ FreshEntries # {}) =>
                LET m == CHOOSE i \in FreshEntries : \A j \in FreshEntries : i >= j IN
                    /\ last' = Returned(targets[m])
                    /\ targets' = SubSeq(targets, 1, m - 1)
                    /\ shots' = shots \cup {targets[m]}
          /\ (ChooseStep /\ kind = "SeekAndDestroy" /\ FreshEntries = {}) =>
                /\ targets' = <<>>
                /\ \/ last'.raised /\ shots = Board(grid_size) /\ shots' = shots
                   \/ /\ ~last'.raised
                      /\ last'.ret \in Board(grid_size) \ shots
                      /\ shots' = shots \cup {last'.ret}]_vars
    /\ []((kind = "SeekAndDestroy" /\ ~hit_reported /\ calls <= grid_size * grid_size) =>
            /\ ~last.raised
            /\ targets = <<>>
            /\ returned \subseteq Board(grid_size)
            /\ Cardinality(returned) = calls)

\* On a 3 x 3 board, hits at (0,0) and (0,1) left the queue (1,0), (0,2),
\* (1,1), (0,0); choose_target dropped the targeted (0,0) and returned (1,1).
C8_Witness ==
    /\ kind = "SeekAndDestroy"
    /\ grid_size = 3
    /\ shots = {<<0, 0>>, <<0, 1>>, <<1, 1>>}
    /\ last = Returned(<<1, 1>>)
    /\ targets = << <<1, 0>>, <<0, 2>> >>

\* C9: frame of process_result.  No process_result call changes
\* self.shots; RandomShooter's changes no attribute at all; with hit=False
\* SeekAndDestroy's and StrategicGenius's leave the queue and hunt_mode as
\* they are.
C9_ProcessResultFrame ==
    [][ProcessStep =>
            /\ shots' = shots
            /\ UNCHANGED <<kind, grid_size>>
            /\ (kind = "RandomShooter" \/ ~last'.hit) =>
                    UNCHANGED <<targets, hunt_mode>>]_vars

\* A miss was reported to a StrategicGenius in Targeting state with a
\* non-empty queue.
C9_Witness ==
    /\ kind = "StrategicGenius"
    /\ last.op = "process_result" /\ ~last.hit
    /\ ~hunt_mode
    /\ targets # <<>>
    /\ shots # {}

\* C10: Ship.check_hit(target) returns True exactly when target is one of
\* self.positions, and then target is added to self.hits; otherwise it
\* returns False and self.hits stays as it is.  So self.hits is always a
\* subset of the positions.
C10_CheckHit ==
    /\ [][(ship_last'.op = "check_hit") =>
            LET target == ship_last'.target IN
                /\ ship_last'.ret = (target \in SeqRange(ship_positions))
                /\ ship_hits' = IF ship_last'.ret THEN ship_hits \cup {target} ELSE ship_hits
                /\ UNCHANGED <<ship_size, ship_positions>>]_vars
    /\ [](ship_hits \subseteq SeqRange(ship_positions))

\* A ship of length 3 with one cell hit, after check_hit missed at a cell of
\* the ship's row that is not one of its positions.
C10_Witness ==
    /\ ship_size = 3
    /\ Cardinality(ship_hits) = 1
    /\ ship_last.op = "check_hit" /\ ~ship_last.ret
    /\ ship_last.target \notin SeqRange(ship_positions)
    /\ \E i \in 1 .. 3 : ship_positions[i][1] = ship_last.target[1]

\* C11: Ship.is_sunk.  For a ship whose positions are ship_size distinct
\* coordinates (every ship that placement creates), after any sequence of
\* check_hit calls is_sunk() is true exactly when every position is in hits,
\* that is, has been the target of a check_hit; what is_sunk() returned is
\* that value; a hit on a position already hit leaves hits as it is, so it
\* cannot sink the ship early; and no call makes a sunk ship afloat again.
C11_IsSunk ==
    /\ [](/\ Cardinality(SeqRange(ship_positions)) = ship_size
          /\ is_sunk(ship_hits, ship_size) <=> (SeqRange(ship_positions) \subseteq ship_hits)
          /\ ship_last.op = "is_sunk"
                => (ship_last.ret <=> (SeqRange(ship_positions) \subseteq ship_hits)))
    /\ [][/\ \A target \in ship_hits :
                (ship_last'.op = "check_hit" /\ ship_last'.target = target)
                    => ship_hits' = ship_hits
          /\ (ship_last'.op = "check_hit" /\ ship_last'.ret)
                => ship_hits' = ship_hits \cup {ship_last'.target}
          /\ is_sunk(ship_hits, ship_size) => is_sunk(ship_hits', ship_size)]_vars

\* is_sunk() has returned True for a ship of two or more cells, every one
\* of them hit.
C11_Witness ==
    /\ ship_size >= 2
    /\ ship_last.op = "is_sunk"
    /\ ship_last.ret
    /\ ship_hits = SeqRange(ship_positions)

\* The cells of a fleet, and whether its ships have pairwise disjoint
\* positions.
FleetCells(fleet) == UNION {SeqRange(fleet[i].positions) : i \in 1 .. Len(fleet)}
Disjoint(fleet) ==
    \A i, j \in 1 .. Len(fleet) :
        i # j => SeqRange(fleet[i].positions) \cap SeqRange(fleet[j].positions) = {}

\* A step of Game.play that resolves the player's attack / the AI's attack,
\* and the coordinate the player's attack was resolved at.
PlayerAttack == phase = "prompt" /\ phase' \in {"ai_turn", "won"}
AIAttack == phase = "ai_turn" /\ phase' = "ai_attacked"
PlayerTarget == parse(reports'[1].coord, grid_size).coord

\* The attack at target, reported as hit, took the fleet from before to
\* after and the attacked side's board from cells to cellsAfter as C12
\* states.
Resolved(before, after, cells, cellsAfter, target, hit) ==
    /\ hit <=> target \in FleetCells(before)
    /\ hit =>
        \E i \in 1 .. Len(before) :
            /\ InPositions(target, before[i].positions)
            /\ after[i] = [before[i] EXCEPT !.hits = @ \cup {target}]
            /\ \A j \in 1 .. Len(before) : j # i => after[j] = before[j]
    /\ ~hit => after = before
    /\ cellsAfter[target] = (IF hit THEN "X" ELSE "O")
    /\ \A p \in DOMAIN cells : p # target => cellsAfter[p] = cells[p]
    /\ DOMAIN cellsAfter = DOMAIN cells

\* C12: attack resolution.  The fleets placement creates have pairwise
\* disjoint positions; every attack of the player on the computer's fleet
\* and of the AI on the player's fleet reports a hit exactly when the target
\* is a position of some ship; then exactly one ship, the one holding the
\* target, adds it to its hits and every other ship is unchanged; on a miss
\* no ship changes; and the attacked side's board cell of the target becomes
\* 'X' on a hit and 'O' on a miss, no other cell changing.
C12_AttackResolution ==
    /\ [](Disjoint(player_ships) /\ Disjoint(computer_ships))
    /\ [][/\ PlayerAttack =>
                Resolved(computer_ships, computer_ships', computer_cells,
                         computer_cells', PlayerTarget, reports'[1].hit)
          /\ AIAttack =>
                Resolved(player_ships, player_ships', player_cells, player_cells',
                         pc_tgt', hit_pc')]_vars

\* The AI has just hit the second ship of the player's fleet, the first one
\* being untouched, and the player has missed once and hit once.
C12_Witness ==
    /\ phase = "ai_attacked"
    /\ hit_pc
    /\ Len(player_ships) = 2
    /\ pc_tgt \in player_ships[2].hits
    /\ player_ships[1].hits = {}
    /\ player_cells[pc_tgt] = "X"
    /\ \E p, q \in DOMAIN computer_cells :
            computer_cells[p] = "O" /\ computer_cells[q] = "X"

\* The footprint of a ship: length cells from start, along the row for 'h'
\* and along the column for 'v'.
Footprint(start, length, orient) ==
    [i \in 1 .. length |->
        IF orient = "h"
        THEN <<start[1], start[2] + (i - 1)>>
        ELSE <<start[1] + (i - 1), start[2]>>]

\* C13: footprint computation.  For every start on a grid_size board, every
\* orientation and every length, _calc_positions returns None if a cell of
\* the footprint is off the board, and otherwise the footprint itself, cell
\* by cell in order.
C13_Footprint ==
    calc_result.called =>
        LET f == Footprint(calc_args.start, calc_args.size, calc_args.orient)
        IN IF \E i \in 1 .. Len(f) : ~InBounds(grid_size, f[i])
           THEN calc_result.value.none
           ELSE /\ ~calc_result.value.none
                /\ calc_result.value.positions = f
                /\ Len(calc_result.value.positions) = calc_args.size

\* The spec's example: on the 4 x 4 board, start (0,0), length 3, vertical
\* has given [(0,0), (1,0), (2,0)].
C13_Witness ==
    /\ grid_size = 4
    /\ calc_args = [start |-> <<0, 0>>, size |-> 3, orient |-> "v"]
    /\ calc_result.called
    /\ ~calc_result.value.none
    /\ calc_result.value.positions = <<<<0, 0>>, <<1, 0>>, <<2, 0>>>>

\* for coord in s.positions: s.check_hit(coord), from the k-th position on.
RECURSIVE HitOwn(_, _)
HitOwn(ship, k) ==
    IF k > Len(ship.positions)
    THEN ship
    ELSE HitOwn(check_hit(ship, ship.positions[k]).ship, k + 1)

\* The placement has returned: every requested length has its ship.
PlacementReturned == placement # "none" /\ Len(ships) = Len(ship_sizes)

\* C14: placement invariant.  In every state of random_placement and of the
\* interactive placement the ships placed so far are those of the first
\* requested lengths, in request order, each unhit; their positions are
\* pairwise disjoint and on the board; each position list is the footprint
\* of its first cell along a row or along a column, size cells long;
\* occupied is the union of the positions; and once the placement has
\* returned there is one ship per requested length and hitting every
\* position of every ship makes all_sunk() true.
C14_Placement ==
    /\ Len(ships) <= Len(ship_sizes)
    /\ \A i \in 1 .. Len(ships) :
        /\ ships[i].size = ship_sizes[i]
        /\ ships[i].hits = {}
        /\ Len(ships[i].positions) = ships[i].size
        /\ \A k \in 1 .. Len(ships[i].positions) :
                InBounds(grid_size, ships[i].positions[k])
        /\ \E orient \in {"h", "v"} :
                ships[i].positions
                    = Footprint(ships[i].positions[1], ships[i].size, orient)
    /\ Disjoint(ships)
    /\ occupied = FleetCells(ships)
    /\ Cardinality(occupied) <= grid_size * grid_size
    /\ PlacementReturned =>
        /\ ~all_sunk(ships)
        /\ all_sunk([i \in 1 .. Len(ships) |-> HitOwn(ships[i], 1)])

\* The interactive placement has returned the three ships of the 3 x 3
\* preset.
C14_Witness ==
    /\ placement = "__init__"
    /\ grid_size = 3
    /\ PlacementReturned
    /\ Len(ships) = 3
    /\ ships[3].positions[1] # ships[3].positions[2]

\* C15: a line that is turned down is a retry without penalty.  Every round
\* of play() in which a ship, a board cell, the AI strategy, the AI's locals
\* or the position in the loop changes was made on 'q' or on a line that
\* parses to a coordinate of a blank cell of the enemy board (the line is
\* the text of the "You fire at" report).  So a line that does not parse, or
\* names a cell that is hit or miss already, changes none of them: no AI
\* turn is taken, play() is at the player's prompt again, and the only
\* trace is the one report saying so.
C15_Retry ==
    [][phase = "prompt" =>
        \/ /\ UNCHANGED <<computer_ships, player_ships, computer_cells, player_cells>>
           /\ UNCHANGED <<stratVars, pc_tgt, hit_pc>>
           /\ phase' = "prompt"
           /\ Len(reports') = 1
           /\ reports'[1].msg \in {"Invalid coordinate!", "You already fired at"}
           /\ reports'[1].msg = "You already fired at" =>
                LET tgt == parse(reports'[1].coord, grid_size)
                IN ~tgt.none /\ computer_cells[tgt.coord] # " "
        \/ /\ phase' = "quit"
           /\ reports' = <<>>
        \/ /\ phase' \in {"ai_turn", "won"}
           /\ reports'[1].msg = "You fire at"
           /\ LET tgt == parse(reports'[1].coord, grid_size)
              IN ~tgt.none /\ computer_cells[tgt.coord] = " "]_vars

\* The player has been told that the cell typed, a miss on the enemy board,
\* was fired at already; the AI has had one turn, the one that followed the
\* miss.
C15_Witness ==
    /\ phase = "prompt"
    /\ Len(reports) = 1
    /\ reports[1].msg = "You already fired at"
    /\ computer_cells[parse(reports[1].coord, grid_size).coord] = "O"
    /\ calls = 1
    /\ Cardinality({p \in DOMAIN player_cells : player_cells[p] # " "}) = 1

\* The cells of a board that have been written: hit or miss.
Written(cells) == {p \in DOMAIN cells : cells[p] # " "}

\* From cells to cellsAfter no written cell changes and no cell is added.
WriteOnce(cells, cellsAfter) ==
    /\ DOMAIN cellsAfter = DOMAIN cells
    /\ \A p \in DOMAIN cells : cells[p] # " " => cellsAfter[p] = cells[p]

\* C16: board cells are write-once.  In every game both boards start with
\* every cell unknown; a cell holds ' ', 'X' or 'O'; every attack, the
\* player's and the AI's, is written to a cell that was unknown until then
\* (the AI's because its strategy never returns a coordinate twice); and a
\* cell that is hit or miss never changes again.
C16_WriteOnce ==
    /\ computer_cells = Grid(grid_size)
    /\ player_cells = Grid(grid_size)
    /\ [](\A p \in Board(grid_size) :
            computer_cells[p] \in {" ", "X", "O"} /\ player_cells[p] \in {" ", "X", "O"})
    /\ [][/\ WriteOnce(computer_cells, computer_cells')
          /\ WriteOnce(player_cells, player_cells')
          /\ PlayerAttack =>
                /\ computer_cells[PlayerTarget] = " "
                /\ Written(computer_cells') = Written(computer_cells) \cup {PlayerTarget}
          /\ AIAttack =>
                /\ player_cells[pc_tgt'] = " "
                /\ Written(player_cells') = Written(player_cells) \cup {pc_tgt'}
          /\ ~PlayerAttack => computer_cells' = computer_cells
          /\ ~AIAttack => player_cells' = player_cells]_vars

\* The game on the 2 x 2 board is lost: the AI has written three cells of
\* the player's board, all hits, and the player three of the enemy board,
\* one of them a miss.
C16_Witness ==
    /\ phase = "lost"
    /\ grid_size = 2
    /\ Cardinality(Written(player_cells)) = 3
    /\ \A p \in Written(player_cells) : player_cells[p] = "X"
    /\ Cardinality(Written(computer_cells)) = 3
    /\ \E p \in Written(computer_cells) : computer_cells[p] = "O"

\* The number of attacks resolved by the player and by the AI so far.
PlayerShots == Cardinality(Written(computer_cells))
AIShots == Cardinality(Written(player_cells))

\* C17: AI turn protocol.  Every valid player attack that does not sink the
\* last computer ship (play() is then in its AI turn) is followed, before
\* the next prompt, by one AI turn: choose_target is called once, the
\* coordinate it returned is attacked on the player's fleet, process_result
\* is called once, with that coordinate and that attack's result, and only
\* then does play() report and go back to the prompt (or end, the player's
\* fleet being sunk).  choose_target is called in no other place: the AI
\* has fired as often as the player at every prompt, and once less while
\* its turn is under way.
C17_AITurnProtocol ==
    /\ [](/\ phase \in {"prompt", "ai_turn", "ai_attacked", "won", "lost", "quit"}
          /\ phase \in {"prompt", "lost", "quit", "ai_attacked"} =>
                (AIShots = PlayerShots /\ calls = AIShots)
          /\ phase \in {"ai_turn", "won"} =>
                /\ PlayerShots = AIShots + 1
                /\ calls = AIShots + (IF last.op = "choose_target" THEN 1 ELSE 0)
          /\ phase = "won" => last.op # "choose_target"
          /\ phase = "ai_attacked" =>
                /\ pc_tgt \in Written(player_cells)
                /\ hit_pc <=> player_cells[pc_tgt] = "X"
                /\ last.op = "choose_target" => last.ret = pc_tgt)
    /\ [][/\ ChooseStep =>
                /\ phase = "ai_turn" /\ phase' = "ai_turn"
                /\ last.op # "choose_target"
                /\ calls' = calls + 1
                /\ ~last'.raised
          /\ AIAttack =>
                /\ last.op = "choose_target"
                /\ pc_tgt' = last.ret
                /\ hit_pc' <=> pc_tgt' \in FleetCells(player_ships)
                /\ UNCHANGED stratVars
          /\ (last'.op = "process_result" /\ last # last') =>
                /\ phase = "ai_attacked" /\ phase' = "ai_attacked"
                /\ last.op = "choose_target"
                /\ last'.hit = hit_pc
                /\ hit_pc => last'.coord = pc_tgt
                /\ pc_tgt \in shots'
                /\ UNCHANGED <<pc_tgt, hit_pc, player_ships, player_cells>>
          /\ (phase = "ai_attacked" /\ phase' # "ai_attacked") =>
                /\ last.op = "process_result"
                /\ phase' \in {"prompt", "lost"}
                /\ reports'[Len(reports) + 1]
                        = Report("Computer fires at", format(pc_tgt), hit_pc)
                /\ UNCHANGED stratVars]_vars
    /\ (phase = "ai_turn") ~> (phase \in {"prompt", "lost"})

\* An AI turn is over and play() is at the prompt again: the strategy was
\* told of a hit at the coordinate it had chosen, the second of the AI's
\* shots.
C17_Witness ==
    /\ phase = "prompt"
    /\ last.op = "process_result"
    /\ last.hit
    /\ last.coord = pc_tgt
    /\ hit_pc
    /\ calls = 2
    /\ AIShots = 2
    /\ PlayerShots = 2

\* Every ship of the fleet has every one of its positions hit.
EveryShipSunk(fleet) ==
    \A i \in 1 .. Len(fleet) : SeqRange(fleet[i].positions) \subseteq fleet[i].hits

\* play() has ended: display_and_exit() after a win or a loss, or 'q'.
Ended == phase \in {"won", "lost", "quit"}

\* C18: game end.  The round of a player attack ends the game with a win
\* exactly when every computer ship is sunk after it, and then the AI takes
\* no turn; the AI turn ends the game with a loss exactly when every player
\* ship is sunk after its attack; all_sunk() is true exactly when every
\* ship of the fleet is sunk; play() ends in no other way than these two
\* and 'q' (choose_target never raises, and in every other state the loop
\* has a next step); nothing happens after the end; and no attack is
\* resolved once a fleet is fully sunk.
C18_GameEnd ==
    /\ [](/\ all_sunk(computer_ships) <=> EveryShipSunk(computer_ships)
          /\ all_sunk(player_ships) <=> EveryShipSunk(player_ships)
          /\ phase = "won" <=> EveryShipSunk(computer_ships)
          /\ phase = "lost" => EveryShipSunk(player_ships)
          /\ (EveryShipSunk(player_ships) /\ phase # "lost") => phase = "ai_attacked"
          /\ phase = "won" => ~EveryShipSunk(player_ships)
          /\ phase # "raised"
          /\ ~Ended => ENABLED GameNext)
    /\ [][/\ ~Ended
          /\ PlayerAttack =>
                /\ ~EveryShipSunk(computer_ships) /\ ~EveryShipSunk(player_ships)
                /\ phase' = "won" <=> EveryShipSunk(computer_ships')
          /\ AIAttack =>
                ~EveryShipSunk(computer_ships) /\ ~EveryShipSunk(player_ships)
          /\ phase' = "won" => PlayerAttack
          /\ phase' = "lost" => phase = "ai_attacked" /\ UNCHANGED player_ships
          /\ (phase = "ai_attacked" /\ phase' # "ai_attacked") =>
                (phase' = "lost" <=> EveryShipSunk(player_ships))
          /\ phase' = "quit" => phase = "prompt"]_vars

\* The player has won on the 2 x 2 board with the third attack: both
\* computer ships are sunk, the AI has fired twice and takes no third turn.
C18_Witness ==
    /\ phase = "won"
    /\ grid_size = 2
    /\ EveryShipSunk(computer_ships)
    /\ ~EveryShipSunk(player_ships)
    /\ PlayerShots = 3
    /\ AIShots = 2
    /\ calls = 2

\* C19: the AI is never asked for a target on an exhausted board.  In every
\* game the player's fleet is not empty; the coordinates the AI has
\* targeted are the written cells of the player's board (and the one just
\* chosen); once every cell of the player's fleet is targeted, which is the
\* case at the latest when all N * N cells are, the fleet is sunk and the
\* game ends with that AI turn; since the player fires first and never
\* twice at a cell, the AI has fired fewer than N * N times at every call
\* of choose_target, which therefore finds an untargeted cell and returns
\* it: it never raises.
C19_NeverExhausted ==
    /\ [](/\ FleetCells(player_ships) # {}
          /\ FleetCells(player_ships) \subseteq Board(grid_size)
          /\ shots \subseteq Board(grid_size)
          /\ shots = Written(player_cells)
                        \cup (IF phase = "ai_turn" /\ last.op = "choose_target"
                              THEN {last.ret} ELSE {})
          /\ AIShots <= grid_size * grid_size
          /\ calls <= grid_size * grid_size
          /\ calls <= PlayerShots
          /\ PlayerShots <= grid_size * grid_size
          /\ (phase = "ai_turn" /\ last.op # "choose_target") =>
                Cardinality(shots) < grid_size * grid_size
          /\ FleetCells(player_ships) \subseteq Written(player_cells) =>
                /\ EveryShipSunk(player_ships)
                /\ phase \in {"ai_attacked", "lost"}
          /\ ~last.raised)
    /\ [][ChooseStep =>
            /\ Untargeted(grid_size, shots) # {}
            /\ last'.ret \in Untargeted(grid_size, shots)
            /\ shots' = shots \cup {last'.ret}]_vars

\* On the 2 x 2 board the AI has fired three times, one cell of its board is
\* left, and the player, whose fleet is still afloat, is at the prompt.
C19_Witness ==
    /\ grid_size = 2
    /\ phase = "prompt"
    /\ calls = 3
    /\ Cardinality(shots) = 3
    /\ ~EveryShipSunk(player_ships)
    /\ Cardinality(Untargeted(grid_size, shots)) = 1

\* The starts and orientations that place the next ship.
Room ==
    {so \in Board(grid_size) \X {"h", "v"} :
        Fits(calc_positions(grid_size, so[1], ship_sizes[Len(ships) + 1], so[2]),
             occupied)}

\* C20: random placement has no dead end on the small preset.  On the 5 x 5
\* board with ship lengths [2, 2, 3], in every state random_placement
\* reaches with a ship still to place some start and orientation give an
\* in-bounds footprint clear of the occupied cells; so, every start and
\* orientation being drawn again and again, random_placement places every
\* ship and returns.
C20_NoDeadEnd ==
    /\ [](Placing => Room # {})
    /\ <>[]PlacementReturned

\* The third ship is still to place, the latest attempt was turned down,
\* and the two ships placed leave 14 of the 30 footprints of a ship of
\* three cells free, the fewest two ships can leave.
C20_Witness ==
    /\ grid_size = 5
    /\ ship_sizes = <<2, 2, 3>>
    /\ Len(ships) = 2
    /\ Placing
    /\ ~place_last.placed
    /\ Cardinality(Room) = 14

\* The attempt for the next ship was turned down: no ship
\* is added, no ship and no occupied cell changes, and the same length is
\* still the one to place.
TurnedDown ==
    /\ ships' = ships
    /\ occupied' = occupied
    /\ ~place_last'.placed
    /\ UNCHANGED <<ship_sizes, placement, grid_size>>
    /\ Placing'
    /\ ship_sizes'[Len(ships') + 1] = ship_sizes[Len(ships) + 1]

\* The attempt with footprint f for the next ship was accepted: one unhit
\* ship with that footprint is added behind the others, which do not change,
\* and the occupied set gains exactly the cells of f.
Accepted(f) ==
    /\ Len(ships') = Len(ships) + 1
    /\ SubSeq(ships', 1, Len(ships)) = ships
    /\ ships'[Len(ships')] = [size |-> ship_sizes[Len(ships) + 1], positions |-> f, hits |-> {}]
    /\ occupied' = occupied \cup SeqRange(f)
    /\ Cardinality(occupied') = Cardinality(occupied) + Len(f)
    /\ place_last'.placed
    /\ UNCHANGED <<ship_sizes, placement, grid_size>>

\* The footprint f has a cell off the board or a cell that is occupied.
OffBoardOrOverlapping(f) ==
    \/ \E i \in 1 .. Len(f) : ~InBounds(grid_size, f[i])
    \/ SeqRange(f) \cap occupied # {}

\* C21: a rejected placement leaves the fleet unchanged.  An attempt of
\* random_placement with any orientation and start, and an attempt of the
\* interactive placement with any two lines typed, whose footprint has a
\* cell off the board or shares a cell with the occupied set (or, typed,
\* names no start or no orientation) adds no ship and leaves the occupied
\* set and every ship as they are, and the same ship length is attempted
\* again; every other attempt adds exactly one ship, with that footprint,
\* and exactly its cells to the occupied set.
C21_RejectedPlacement ==
    [][/\ \A orient \in {"h", "v"}, start \in Board(grid_size) :
            Player_random_placement(orient, start) =>
                LET f == Footprint(start, ship_sizes[Len(ships) + 1], orient)
                IN IF OffBoardOrOverlapping(f) THEN TurnedDown ELSE Accepted(f)
       /\ \A coord \in Lines, orient \in Orients :
            Player_init(coord, orient) =>
                LET start == parse(upper(coord), grid_size)
                    o == lower(orient)
                IN IF start.none \/ o \notin {<<"h">>, <<"v">>}
                   THEN TurnedDown
                   ELSE LET f == Footprint(start.coord, ship_sizes[Len(ships) + 1], o[1])
                        IN IF OffBoardOrOverlapping(f) THEN TurnedDown ELSE Accepted(f)
       /\ (placement # "none" /\ ships' = ships) => (occupied' = occupied /\ Placing')
       /\ (placement # "none" /\ ships' # ships) =>
            \E orient \in {"h", "v"} :
                Accepted(Footprint(place_last'.start.coord, ship_sizes[Len(ships) + 1],
                                   orient))]_vars

\* On the 3 x 3 board two ships are placed and the attempt for the third,
\* the ship of three cells, was turned down because a cell of its footprint
\* is occupied.
C21_Witness ==
    /\ grid_size = 3
    /\ Len(ships) = 2
    /\ Placing
    /\ ~place_last.placed
    /\ place_last.why = "overlap"
    /\ Cardinality(occupied) = 4

\* Every footprint of two or more cells that _calc_positions returns on the
\* boards of CalcGridSizes has a cell with row + column even.
FootprintsMeetCheckerboard ==
    \A n \in CalcGridSizes :
        \A start \in Board(n), size \in 2 .. (MaxShip + 1), orient \in {"h", "v"} :
            LET p == calc_positions(n, start, size, orient)
            IN ~p.none => \E i \in 1 .. Len(p.positions) : EvenParity(p.positions[i])

\* Every ship of two or more cells of the fleet has a recorded hit.
LongShipsHit(fleet) == \A i \in 1 .. Len(fleet) : fleet[i].size >= 2 => fleet[i].hits # {}

\* A step in which StrategicGenius.choose_target, hunting, finds no even
\* cell untargeted and picks from the full pool.
FullPoolPick ==
    /\ ChooseStep
    /\ ~last'.raised
    /\ hunt_mode'
    /\ ~EvenParity(last'.ret)

\* C22: checkerboard coverage.  Every footprint of length >= 2, along a row
\* or along a column, contains a cell with row + column even, and so does
\* every ship of that length in the game.  In a game against
\* StrategicGenius, in every state in which every even cell of the
\* player's board has been fired at, every player ship of length >= 2 has a
\* recorded hit; in particular when hunting falls back to the full pool,
\* which it does only with every even cell fired at.
C22_CheckerboardCoverage ==
    /\ [](/\ FootprintsMeetCheckerboard
          /\ \A i \in 1 .. Len(player_ships) :
                player_ships[i].size >= 2 =>
                    \E k \in 1 .. Len(player_ships[i].positions) :
                        EvenParity(player_ships[i].positions[k])
          /\ EvenCells(grid_size) \subseteq Written(player_cells) =>
                LongShipsHit(player_ships))
    /\ [][FullPoolPick =>
            /\ EvenCells(grid_size) \subseteq Written(player_cells)
            /\ LongShipsHit(player_ships)]_vars

\* Hunting has fallen back to the full pool on the 3 x 3 board: the five
\* even cells are fired at, the player's ship of two cells is sunk, the
\* ship of one cell, on an odd cell, is afloat, and an odd cell is chosen.
C22_Witness ==
    /\ grid_size = 3
    /\ phase = "ai_turn"
    /\ last.op = "choose_target" /\ ~last.raised
    /\ hunt_mode
    /\ ~EvenParity(last.ret)
    /\ EvenCells(3) \subseteq Written(player_cells)
    /\ player_ships[1].hits = SeqRange(player_ships[1].positions)
    /\ player_ships[2].hits = {}
    /\ ~EvenParity(player_ships[2].positions[1])

\* C23: strategy state stays well-formed under arbitrary process_result
\* calls.  For SeekAndDestroy and StrategicGenius, after any sequence of
\* choose_target calls and of process_result calls with any coordinate (on
\* the board or off it, chosen by the instance or not, targeted or not) and
\* any hit value, every queue entry and every targeted coordinate has row
\* and column in 0 .. grid_size - 1, and every coordinate choose_target
\* returns has too.
C23_WellFormed ==
    kind \in {"SeekAndDestroy", "StrategicGenius"} =>
        /\ \A i \in 1 .. Len(targets) :
                /\ targets[i][1] \in 0 .. (grid_size - 1)
                /\ targets[i][2] \in 0 .. (grid_size - 1)
        /\ \A p \in shots \cup returned :
                p[1] \in 0 .. (grid_size - 1) /\ p[2] \in 0 .. (grid_size - 1)
        /\ (last.op = "choose_target" /\ ~last.raised) =>
                /\ last.ret[1] \in 0 .. (grid_size - 1)
                /\ last.ret[2] \in 0 .. (grid_size - 1)
                /\ last.ret \in shots

\* SeekAndDestroy on the 2 x 2 board was told of a hit at (2,1), a
\* coordinate below the board that it never chose: the one neighbour on the
\* board, (1,1), which it had targeted before, is queued.
C23_Witness ==
    /\ kind = "SeekAndDestroy"
    /\ grid_size = 2
    /\ last = Processed(<<2, 1>>, TRUE)
    /\ <<1, 1>> \in shots
    /\ targets = << <<1, 1>> >>

\* C24: StrategicGenius phase / queue invariant.  In every state reached by
\* any interleaving of choose_target and process_result calls, a
\* StrategicGenius in Hunting state (hunt_mode True) has an empty queue: a
\* non-empty queue exists only in Targeting state.  The queue grows only in
\* a step that leaves the state Targeting, and a step that returns to
\* Hunting leaves the queue empty.
C24_HuntingQueueEmpty ==
    /\ [](kind = "StrategicGenius" =>
            /\ hunt_mode => Len(targets) = 0
            /\ Len(targets) > 0 => ~hunt_mode)
    /\ [][kind = "StrategicGenius" =>
            /\ Len(targets') > Len(targets) => ~hunt_mode'
            /\ (~hunt_mode /\ hunt_mode') => Len(targets') = 0]_vars

\* After a reported hit a StrategicGenius called by an arbitrary caller on
\* the 2 x 2 board has drained its queue, returned to Hunting and picked a
\* coordinate: the queue is empty.
C24_Witness ==
    /\ kind = "StrategicGenius"
    /\ grid_size = 2
    /\ hit_reported
    /\ hunt_mode
    /\ last.op = "choose_target" /\ ~last.raised
    /\ Len(targets) = 0
    /\ Cardinality(shots) >= 2

\* C25: every choose_target call terminates.  While a call of
\* SeekAndDestroy.choose_target or StrategicGenius.choose_target is under
\* way the queue never grows, and every round of the pop loop that does not
\* return makes it one entry shorter; StrategicGenius.choose_target calls
\* itself only from Targeting state with the queue empty, sets hunt_mode
\* first, and the invocation it makes runs the hunting branch, which
\* returns a pick or raises on an exhausted board: no more than two
\* invocations are ever on the stack.  So every call that is made returns
\* or raises.
C25_Terminates ==
    /\ [](/\ depth \in {0, 1, 2}
          /\ depth = 0 <=> frame = "idle"
          /\ depth = 2 =>
                /\ kind = "StrategicGenius"
                /\ hunt_mode
                /\ frame \in {"if", "choice"}
                /\ Len(targets) = 0
          /\ kind = "SeekAndDestroy" => depth <= 1)
    /\ [][/\ frame # "idle" => Len(targets') <= Len(targets)
          /\ (frame = "while" /\ frame' = "while") => Len(targets') = Len(targets) - 1
          /\ (frame = "while" /\ frame' \notin {"while", "idle"}) => Len(targets) = 0
          /\ (depth > 0 /\ depth' > depth) =>
                /\ depth = 1 /\ depth' = 2
                /\ ~hunt_mode /\ hunt_mode'
                /\ frame = "while"
          /\ (depth = 2 /\ depth' # 2) =>
                /\ depth' = 0
                /\ last'.op = "choose_target"
                /\ last'.raised <=> shots = Board(grid_size)
          /\ (frame # "idle" /\ frame' = "idle") =>
                /\ last'.op = "choose_target"
                /\ last'.raised \/ (last'.ret \notin shots /\ last'.ret \in shots')]_vars
    /\ (frame # "idle") ~> (frame = "idle")

\* On the 2 x 2 board a StrategicGenius.choose_target call made in
\* Targeting state, after a reported hit and with three cells targeted,
\* has emptied its queue, set hunt_mode and called itself: the second
\* invocation is at its hunting pick.
C25_Witness ==
    /\ kind = "StrategicGenius"
    /\ grid_size = 2
    /\ depth = 2
    /\ frame = "choice"
    /\ hunt_mode
    /\ hit_reported
    /\ Len(targets) = 0
    /\ Cardinality(shots) = 3

====
